---- MODULE Spec2Model ----
(***************************************************************************)
(* Model of scripts/character_sheet.py: the CharacterSheet class, which    *)
(* derives the game statistics of a character from its raw JSON document.  *)
(*                                                                         *)
(* JSON encoding used throughout:                                          *)
(*   - an object (Python dict) is a function from its keys to its values;  *)
(*     a key the document does not hold is outside the DOMAIN, and         *)
(*     Get(m, k, d) is Python's m.get(k, d);                               *)
(*   - a list is a sequence;                                               *)
(*   - the `modifiers` object, which the code iterates with .items(), is   *)
(*     the sequence of its [key, val] entries in insertion order;          *)
(*   - a field that may hold null is tagged: JNull, JInt(n), JStr(s);      *)
(*     fields the code uses as plain integers, booleans or strings are     *)
(*     plain TLA+ values.                                                  *)
(***************************************************************************)
EXTENDS Integers, Sequences, FiniteSets, TLC

VARIABLES data, pc, abilities, total_level, proficiency_bonus, saves, skills,
          max_hp, current_hp, ac, speed, initiative,
          spell_ability, spell_attack, spell_dc,
          files, file_idx, sheets, shown,
          site, mode, camp_idx, characters, seen_ids, char_idx, all_data,
          saved, combined, report

\* list_characters: the documents of the sorted files, the position of the
\* loop, the sheets show_summary has built and the files whose line it printed
listing == <<files, file_idx, sheets, shown>>

\* character_scraper.py: what the site answers (site), the entry point that
\* runs (mode) and the locals of get_character_list and of the scrape_* methods
scraping == <<site, mode, camp_idx, characters, seen_ids, char_idx, all_data,
              saved, combined, report>>

vars == <<data, pc, abilities, total_level, proficiency_bonus, saves, skills,
          max_hp, current_hp, ac, speed, initiative,
          spell_ability, spell_attack, spell_dc, listing, scraping>>

----------------------------------------------------------------------------
(* JSON values and the Python idioms the code applies to them *)

JNull == [t |-> "null"]

JInt(n) == [t |-> "int", v |-> n]

JStr(s) == [t |-> "str", v |-> s]

\* a JSON array standing where an object or a scalar is read
JList(s) == [t |-> "list", v |-> s]

\* m.get(k, d)
Get(m, k, d) == IF k \in DOMAIN m THEN m[k] ELSE d

\* Python truthiness of a tagged value: None, 0 and "" are falsy
Truthy(j) ==
  CASE j.t = "null" -> FALSE
    [] j.t = "int" -> j.v # 0
    [] j.t = "str" -> j.v # ""

\* a or b
PyOr(a, b) == IF Truthy(a) THEN a ELSE b

\* an unset attribute of the sheet (the constructor has not reached it yet)
Unset == <<>>

----------------------------------------------------------------------------
(* Module-level lookup tables *)

STAT_NAMES == <<"STR", "DEX", "CON", "INT", "WIS", "CHA">>

STAT_ID_MAP ==
  ("strength-score" :> 1) @@ ("dexterity-score" :> 2) @@
  ("constitution-score" :> 3) @@ ("intelligence-score" :> 4) @@
  ("wisdom-score" :> 5) @@ ("charisma-score" :> 6)

SAVE_MAP ==
  ("strength-saving-throws" :> "STR") @@ ("dexterity-saving-throws" :> "DEX") @@
  ("constitution-saving-throws" :> "CON") @@
  ("intelligence-saving-throws" :> "INT") @@
  ("wisdom-saving-throws" :> "WIS") @@ ("charisma-saving-throws" :> "CHA")

SKILLS ==
  ("acrobatics" :> "DEX") @@ ("animal-handling" :> "WIS") @@ ("arcana" :> "INT") @@
  ("athletics" :> "STR") @@ ("deception" :> "CHA") @@ ("history" :> "INT") @@
  ("insight" :> "WIS") @@ ("intimidation" :> "CHA") @@ ("investigation" :> "INT") @@
  ("medicine" :> "WIS") @@ ("nature" :> "INT") @@ ("perception" :> "WIS") @@
  ("performance" :> "CHA") @@ ("persuasion" :> "CHA") @@ ("religion" :> "INT") @@
  ("sleight-of-hand" :> "DEX") @@ ("stealth" :> "DEX") @@ ("survival" :> "WIS")

SPELLCASTING_ABILITIES ==
  ("Wizard" :> "INT") @@ ("Artificer" :> "INT") @@
  ("Cleric" :> "WIS") @@ ("Druid" :> "WIS") @@ ("Ranger" :> "WIS") @@
  ("Bard" :> "CHA") @@ ("Paladin" :> "CHA") @@ ("Sorcerer" :> "CHA") @@
  ("Warlock" :> "CHA")

AbilityNames == {STAT_NAMES[i] : i \in DOMAIN STAT_NAMES}

StatIdOf(name) == CHOOSE i \in DOMAIN STAT_NAMES : STAT_NAMES[i] = name

----------------------------------------------------------------------------
(* for category, mods in self.data.get('modifiers', {}).items():           *)
(*     for mod in mods:                                                    *)
(* the [category, mod] pairs in the order the nested loops visit them      *)

RECURSIVE FlattenItems(_)
FlattenItems(items) ==
  IF items = <<>> THEN <<>>
  ELSE LET e == Head(items)
       IN  [i \in 1..Len(e.val) |-> [category |-> e.key, mod |-> e.val[i]]]
           \o FlattenItems(Tail(items))

ModifierItems(d) == FlattenItems(Get(d, "modifiers", <<>>))

\* mod.get('subType', '')
SubType(mod) == Get(mod, "subType", "")

\* mod.get('type') == kind   (a missing type is None, equal to no string)
TypeIs(mod, kind) == "type" \in DOMAIN mod /\ mod["type"] = kind

\* mod.get('value', 0) or 0
ValueOrZero(mod) == PyOr(Get(mod, "value", JInt(0)), JInt(0)).v

\* mod.get('value', 0) or mod.get('fixedValue', 0) or 0
ValueOrFixedOrZero(mod) ==
  PyOr(PyOr(Get(mod, "value", JInt(0)), Get(mod, "fixedValue", JInt(0))), JInt(0)).v

----------------------------------------------------------------------------
(* _calculate_ability_scores *)

\* {s['id']: s['value'] for s in stats}: a later entry of the same id wins
RECURSIVE BaseStats(_, _)
BaseStats(stats, acc) ==
  IF stats = <<>> THEN acc
  ELSE BaseStats(Tail(stats), (Head(stats)["id"] :> Head(stats)["value"]) @@ acc)

\* s['id'] and s['value'] raise KeyError on an entry that lacks the key
StatsSubscriptable(d) ==
  LET stats == Get(d, "stats", <<>>)
  IN  \A i \in DOMAIN stats : {"id", "value"} \subseteq DOMAIN stats[i]

RECURSIVE StatBonuses(_, _)
StatBonuses(items, acc) ==
  IF items = <<>> THEN acc
  ELSE LET mod == Head(items).mod
           subtype == SubType(mod)
       IN  StatBonuses(Tail(items),
             IF subtype \in DOMAIN STAT_ID_MAP /\ TypeIs(mod, "bonus")
             THEN [acc EXCEPT ![STAT_ID_MAP[subtype]] = @ + ValueOrZero(mod)]
             ELSE acc)

AbilityModifierTrunc(total) ==
  IF total >= 10 THEN (total - 10) \div 2 ELSE -((10 - total) \div 2)

\* modifier = (total - 10) // 2
AbilityModifier(total) == (total - 10) \div 2

CalculateAbilityScores(d) ==
  LET base_stats == BaseStats(Get(d, "stats", <<>>), <<>>)
      stat_bonuses == StatBonuses(ModifierItems(d), [i \in 1..6 |-> 0])
  IN  [name \in AbilityNames |->
        LET stat_id == StatIdOf(name)
            base == Get(base_stats, stat_id, 10)
            bonus == Get(stat_bonuses, stat_id, 0)
            total == base + bonus
        IN  [base |-> base, bonus |-> bonus, total |-> total,
             mod |-> AbilityModifier(total)]]

----------------------------------------------------------------------------
(* _calculate_proficiency_bonus *)

RECURSIVE SumLevels(_)
SumLevels(classes) ==
  IF classes = <<>> THEN 0
  ELSE Get(Head(classes), "level", 0) + SumLevels(Tail(classes))

TotalLevel(d) == SumLevels(Get(d, "classes", <<>>))

ProficiencyBonusOffByOne(level) == 2 + level \div 4

\* 2 + (self.total_level - 1) // 4
ProficiencyBonus(level) == 2 + (level - 1) \div 4

----------------------------------------------------------------------------
(* _calculate_saving_throws *)

RECURSIVE ProficientSavesSkipItem(_, _)
ProficientSavesSkipItem(items, proficient) ==
  IF items = <<>> THEN proficient
  ELSE LET mod == Head(items).mod
           subtype == SubType(mod)
       IN  ProficientSavesSkipItem(Tail(items),
             IF /\ Head(items).category # "item"
                /\ subtype \in DOMAIN SAVE_MAP /\ TypeIs(mod, "proficiency")
             THEN proficient \cup {SAVE_MAP[subtype]}
             ELSE proficient)

\* the set `proficient` after the loop over every category's modifiers
RECURSIVE ProficientSaves(_, _)
ProficientSaves(items, proficient) ==
  IF items = <<>> THEN proficient
  ELSE LET mod == Head(items).mod
           subtype == SubType(mod)
       IN  ProficientSaves(Tail(items),
             IF subtype \in DOMAIN SAVE_MAP /\ TypeIs(mod, "proficiency")
             THEN proficient \cup {SAVE_MAP[subtype]}
             ELSE proficient)

CalculateSavingThrows(d, abil, bonus) ==
  LET proficient == ProficientSaves(ModifierItems(d), {})
  IN  [stat \in AbilityNames |->
        LET is_prof == stat \in proficient
        IN  [value |-> IF is_prof THEN abil[stat].mod + bonus ELSE abil[stat].mod,
             proficient |-> is_prof]]

----------------------------------------------------------------------------
(* _calculate_skills                                                       *)
(* The proficiency levels 0, 0.5, 1 and 2 are stored doubled (0, 1, 2, 4), *)
(* TLC having no fractions.                                                *)

Max(a, b) == IF a >= b THEN a ELSE b

Min(a, b) == IF a <= b THEN a ELSE b

SkillProfStepOverwrite(level, mod) ==
  IF Get(mod, "type", "") = "proficiency" THEN 2
  ELSE IF Get(mod, "type", "") = "expertise" THEN 4
  ELSE IF Get(mod, "type", "") = "half-proficiency" THEN 1
  ELSE level

\* one modifier for a skill applied to the level recorded so far
SkillProfStep(level, mod) ==
  IF Get(mod, "type", "") = "proficiency" THEN Max(level, 2)
  ELSE IF Get(mod, "type", "") = "expertise" THEN 4
  ELSE IF Get(mod, "type", "") = "half-proficiency" THEN Max(level, 1)
  ELSE level

RECURSIVE SkillProfs(_, _)
SkillProfs(items, skill_profs) ==
  IF items = <<>> THEN skill_profs
  ELSE LET mod == Head(items).mod
           subtype == SubType(mod)
       IN  SkillProfs(Tail(items),
             IF subtype \in DOMAIN skill_profs
             THEN [skill_profs EXCEPT ![subtype] = SkillProfStep(@, mod)]
             ELSE skill_profs)

SkillBonusRoundHalfUp(base_mod, bonus, prof_level) ==
  IF prof_level >= 2 THEN base_mod + (bonus * prof_level) \div 2
  ELSE IF prof_level = 1 THEN base_mod + (bonus + 1) \div 2
  ELSE base_mod

\* prof_level is the doubled level: int(bonus * level) is (bonus * prof_level) \div 2,
\* exact for the levels 1 and 2
SkillBonus(base_mod, bonus, prof_level) ==
  IF prof_level >= 2 THEN base_mod + (bonus * prof_level) \div 2
  ELSE IF prof_level = 1 THEN base_mod + bonus \div 2
  ELSE base_mod

CalculateSkills(d, abil, bonus) ==
  LET skill_profs == SkillProfs(ModifierItems(d), [s \in DOMAIN SKILLS |-> 0])
  IN  [skill \in DOMAIN SKILLS |->
        [ability |-> SKILLS[skill],
         value |-> SkillBonus(abil[SKILLS[skill]].mod, bonus, skill_profs[skill]),
         proficiency |-> skill_profs[skill]]]

----------------------------------------------------------------------------
(* _calculate_ac *)

\* mod.get('subType') == 'armor-class' and mod.get('type') == 'bonus'
IsArmorClassBonus(mod) ==
  /\ "subType" \in DOMAIN mod /\ mod["subType"] = "armor-class"
  /\ TypeIs(mod, "bonus")

\* the sum the loop over an item's grantedModifiers adds
RECURSIVE GrantedBonus(_)
GrantedBonus(mods) ==
  IF mods = <<>> THEN 0
  ELSE (IF IsArmorClassBonus(Head(mods)) THEN ValueOrFixedOrZero(Head(mods)) ELSE 0)
       + GrantedBonus(Tail(mods))

InventoryStepShieldsAdd(st, item) ==
  IF ~Get(item, "equipped", FALSE) THEN st
  ELSE LET item_def == Get(item, "definition", <<>>)
           armor_type_id == Get(item_def, "armorTypeId", JNull)
           item_ac == Get(item_def, "armorClass", 0)
           granted == GrantedBonus(Get(item_def, "grantedModifiers", <<>>))
       IN  IF armor_type_id = JInt(4)
           THEN [st EXCEPT !.shield_bonus = @ + item_ac + granted]
           ELSE IF armor_type_id \in {JInt(1), JInt(2), JInt(3)}
           THEN [st EXCEPT !.base_ac = item_ac,
                           !.dex_cap = IF armor_type_id = JInt(2) THEN JInt(2)
                                       ELSE IF armor_type_id = JInt(3) THEN JInt(0)
                                       ELSE @,
                           !.other_bonuses = @ + granted]
           ELSE st

\* the body of the loop over the inventory, applied to one item;
\* st holds the locals base_ac, dex_cap, shield_bonus, other_bonuses
InventoryStep(st, item) ==
  IF ~Get(item, "equipped", FALSE) THEN st
  ELSE LET item_def == Get(item, "definition", <<>>)
           armor_type_id == Get(item_def, "armorTypeId", JNull)
           item_ac == Get(item_def, "armorClass", 0)
           granted == GrantedBonus(Get(item_def, "grantedModifiers", <<>>))
       IN  IF armor_type_id = JInt(4)
           THEN [st EXCEPT !.shield_bonus = item_ac + granted]
           ELSE IF armor_type_id \in {JInt(1), JInt(2), JInt(3)}
           THEN [st EXCEPT !.base_ac = item_ac,
                           !.dex_cap = IF armor_type_id = JInt(2) THEN JInt(2)
                                       ELSE IF armor_type_id = JInt(3) THEN JInt(0)
                                       ELSE @,
                           !.other_bonuses = @ + granted]
           ELSE st

RECURSIVE InventoryLoop(_, _)
InventoryLoop(inventory, st) ==
  IF inventory = <<>> THEN st
  ELSE InventoryLoop(Tail(inventory), InventoryStep(st, Head(inventory)))

EffectiveDexCapOnly(dex_mod, dex_cap) ==
  IF dex_cap = JNull THEN dex_mod ELSE dex_cap.v

\* dex_mod if dex_cap is None else min(dex_mod, dex_cap)
EffectiveDex(dex_mod, dex_cap) ==
  IF dex_cap = JNull THEN dex_mod ELSE Min(dex_mod, dex_cap.v)

RECURSIVE ModifierBonusesAllCategories(_)
ModifierBonusesAllCategories(items) ==
  IF items = <<>> THEN 0
  ELSE (IF IsArmorClassBonus(Head(items).mod)
        THEN ValueOrZero(Head(items).mod) ELSE 0)
       + ModifierBonusesAllCategories(Tail(items))

\* what the scan of `modifiers` adds to other_bonuses: the "item" category is skipped
RECURSIVE ModifierBonuses(_)
ModifierBonuses(items) ==
  IF items = <<>> THEN 0
  ELSE (IF Head(items).category # "item" /\ IsArmorClassBonus(Head(items).mod)
        THEN ValueOrZero(Head(items).mod) ELSE 0)
       + ModifierBonuses(Tail(items))

CalculateAC(d, abil) ==
  LET dex_mod == abil["DEX"].mod
      st == InventoryLoop(Get(d, "inventory", <<>>),
                          [base_ac |-> 10, dex_cap |-> JNull,
                           shield_bonus |-> 0, other_bonuses |-> 0])
      effective_dex == EffectiveDex(dex_mod, st.dex_cap)
      other_bonuses == st.other_bonuses + ModifierBonuses(ModifierItems(d))
  IN  st.base_ac + effective_dex + st.shield_bonus + other_bonuses

----------------------------------------------------------------------------
(* _calculate_combat_stats: hit points, speed, initiative *)

MaxHp(d, abil, level) ==
  LET base_hp == Get(d, "baseHitPoints", 0)
      bonus_hp == PyOr(Get(d, "bonusHitPoints", JInt(0)), JInt(0)).v
      con_hp == abil["CON"].mod * level
  IN  base_hp + bonus_hp + con_hp

\* current hit points floored at zero
CurrentHpClamped(d, maxhp) ==
  Max(0, maxhp - PyOr(Get(d, "removedHitPoints", JInt(0)), JInt(0)).v)

CurrentHp(d, maxhp) ==
  maxhp - PyOr(Get(d, "removedHitPoints", JInt(0)), JInt(0)).v

\* a JSON object, on which .get works; on any other value .get raises
IsMapping(x) == "t" \notin DOMAIN x

\* data.get('race', {}).get('weightSpeeds', {}).get('normal', {}).get('walk', 30)
\* inside try/except: any raise gives 30
Speed(d) ==
  LET race == Get(d, "race", <<>>)
  IN  IF ~IsMapping(race) THEN JInt(30)
      ELSE LET weightSpeeds == Get(race, "weightSpeeds", <<>>)
           IN  IF ~IsMapping(weightSpeeds) THEN JInt(30)
               ELSE LET normal == Get(weightSpeeds, "normal", <<>>)
                    IN  IF ~IsMapping(normal) THEN JInt(30)
                        ELSE Get(normal, "walk", JInt(30))

----------------------------------------------------------------------------
(* _calculate_spellcasting *)

\* the loop without its break: the last class whose name is in the table
RECURSIVE SpellAbilityLastMatch(_)
SpellAbilityLastMatch(classes) ==
  IF classes = <<>> THEN JNull
  ELSE LET class_name == Get(Get(Head(classes), "definition", <<>>), "name", "")
           later == SpellAbilityLastMatch(Tail(classes))
       IN  IF later # JNull THEN later
           ELSE IF class_name \in DOMAIN SPELLCASTING_ABILITIES
           THEN JStr(SPELLCASTING_ABILITIES[class_name])
           ELSE JNull

\* the loop over classes with its break: the first class whose name is in the table
RECURSIVE SpellAbility(_)
SpellAbility(classes) ==
  IF classes = <<>> THEN JNull
  ELSE LET class_name == Get(Get(Head(classes), "definition", <<>>), "name", "")
       IN  IF class_name \in DOMAIN SPELLCASTING_ABILITIES
           THEN JStr(SPELLCASTING_ABILITIES[class_name])
           ELSE SpellAbility(Tail(classes))

----------------------------------------------------------------------------
(* CharacterSheet.__init__ stores the document and runs _calculate_all,    *)
(* which calls the six _calculate_* methods in a fixed order; pc names the *)
(* method the constructor runs next.                                       *)

calculate_ability_scores ==
  /\ pc = "ability_scores"
  /\ IF IsMapping(data) /\ StatsSubscriptable(data)
     THEN /\ abilities' = CalculateAbilityScores(data)
          /\ pc' = "proficiency_bonus"
     ELSE /\ abilities' = abilities      \* the error leaves the constructor
          /\ pc' = "raised"
  /\ UNCHANGED <<data, total_level, proficiency_bonus, saves, skills, max_hp,
                 current_hp, ac, speed, initiative, spell_ability, spell_attack,
                 spell_dc>>
  /\ UNCHANGED <<listing, scraping>>

\* the same step reading the classes with setdefault, which writes the
\* missing key into the document
calculate_proficiency_bonus_setdefault ==
  /\ pc = "proficiency_bonus"
  /\ total_level' = TotalLevel(data)
  /\ proficiency_bonus' = ProficiencyBonus(TotalLevel(data))
  /\ pc' = "saving_throws"
  /\ UNCHANGED <<abilities, saves, skills, max_hp, current_hp, ac, speed,
                 initiative, spell_ability, spell_attack, spell_dc>>
  /\ data' = (IF "classes" \in DOMAIN data THEN data ELSE data @@ ("classes" :> <<>>))
  /\ UNCHANGED <<listing, scraping>>

calculate_proficiency_bonus ==
  /\ pc = "proficiency_bonus"
  /\ total_level' = TotalLevel(data)
  /\ proficiency_bonus' = ProficiencyBonus(TotalLevel(data))
  /\ pc' = "saving_throws"
  /\ UNCHANGED <<data, abilities, saves, skills, max_hp, current_hp, ac, speed,
                 initiative, spell_ability, spell_attack, spell_dc>>
  /\ UNCHANGED <<listing, scraping>>

calculate_saving_throws ==
  /\ pc = "saving_throws"
  /\ saves' = CalculateSavingThrows(data, abilities, proficiency_bonus)
  /\ pc' = "skills"
  /\ UNCHANGED <<data, abilities, total_level, proficiency_bonus, skills, max_hp,
                 current_hp, ac, speed, initiative, spell_ability, spell_attack,
                 spell_dc>>
  /\ UNCHANGED <<listing, scraping>>

calculate_skills ==
  /\ pc = "skills"
  /\ skills' = CalculateSkills(data, abilities, proficiency_bonus)
  /\ pc' = "combat_stats"
  /\ UNCHANGED <<data, abilities, total_level, proficiency_bonus, saves, max_hp,
                 current_hp, ac, speed, initiative, spell_ability, spell_attack,
                 spell_dc>>
  /\ UNCHANGED <<listing, scraping>>

calculate_combat_stats ==
  /\ pc = "combat_stats"
  /\ max_hp' = MaxHp(data, abilities, total_level)
  /\ current_hp' = CurrentHp(data, MaxHp(data, abilities, total_level))
  /\ ac' = CalculateAC(data, abilities)
  /\ speed' = Speed(data)
  /\ initiative' = abilities["DEX"].mod
  /\ pc' = "spellcasting"
  /\ UNCHANGED <<data, abilities, total_level, proficiency_bonus, saves, skills,
                 spell_ability, spell_attack, spell_dc>>
  /\ UNCHANGED <<listing, scraping>>

calculate_spellcasting ==
  /\ pc = "spellcasting"
  /\ LET ability == SpellAbility(Get(data, "classes", <<>>))
     IN  /\ spell_ability' = ability
         /\ IF Truthy(ability)
            THEN LET spell_mod == abilities[ability.v].mod
                 IN  /\ spell_attack' = JInt(spell_mod + proficiency_bonus)
                     /\ spell_dc' = JInt(8 + spell_mod + proficiency_bonus)
            ELSE /\ spell_attack' = JNull
                 /\ spell_dc' = JNull
  /\ pc' = "done"
  /\ UNCHANGED <<data, abilities, total_level, proficiency_bonus, saves, skills,
                 max_hp, current_hp, ac, speed, initiative>>
  /\ UNCHANGED <<listing, scraping>>

Next ==
  \/ calculate_ability_scores
  \/ calculate_proficiency_bonus
  \/ calculate_saving_throws
  \/ calculate_skills
  \/ calculate_combat_stats
  \/ calculate_spellcasting

\* the state in which __init__ has stored `d` and is about to run _calculate_all
Constructing(d) ==
  /\ data = d
  /\ pc = "ability_scores"
  /\ abilities = Unset /\ total_level = Unset /\ proficiency_bonus = Unset
  /\ saves = Unset /\ skills = Unset /\ max_hp = Unset /\ current_hp = Unset
  /\ ac = Unset /\ speed = Unset /\ initiative = Unset
  /\ spell_ability = Unset /\ spell_attack = Unset /\ spell_dc = Unset
  /\ files = <<>> /\ file_idx = 0 /\ sheets = <<>> /\ shown = <<>>
  /\ site = <<>> /\ mode = "" /\ camp_idx = 0 /\ characters = <<>>
  /\ seen_ids = {} /\ char_idx = 0 /\ all_data = <<>> /\ saved = <<>>
  /\ combined = Unset /\ report = Unset

----------------------------------------------------------------------------
(* The documents the specifications start from *)

MaxStats == 2
MaxMods == 2
MaxClasses == 2
MaxLevel == 20
MaxInventory == 3

SeqsUpTo(S, n) == UNION {[1..k -> S] : k \in 0..n}

\* a document holding exactly the keys whose option is <<v>> (<<>>: key absent)
Field(k, opt) == IF opt = <<>> THEN <<>> ELSE (k :> opt[1])

Doc(stats, modifiers, classes, inventory) ==
  Field("stats", stats) @@ Field("modifiers", modifiers) @@
  Field("classes", classes) @@ Field("inventory", inventory)

Mod3(subType, type, value) == [subType |-> subType, type |-> type, value |-> value]

Mod2(subType, type) == [subType |-> subType, type |-> type]

\* the modifier maps with the categories c1 then c2 that spread a list of at
\* most n modifiers of M over the two, in every order
SplitMaps(M, n, c1, c2) ==
  UNION {{<<[key |-> c1, val |-> [i \in 1..k |-> L[i]]],
            [key |-> c2, val |-> [i \in 1..(Len(L) - k) |-> L[k + i]]]>> :
            k \in 0..Len(L)} :
         L \in SeqsUpTo(M, n)}

StatOf(id, value) == [id |-> id, value |-> value]

TypicalStats ==
  <<StatOf(1, 15), StatOf(2, 14), StatOf(3, 13), StatOf(4, 12), StatOf(5, 10),
    StatOf(6, 8)>>

ClassOf(name, level) == [level |-> level, definition |-> [name |-> name]]

(* documents that vary the base scores and the ability-score modifiers *)
StatValues == {7, 8, 9, 10, 20}

StatLists == SeqsUpTo({StatOf(i, v) : i \in {1, 2}, v \in StatValues}, MaxStats)

ScoreMods ==
  {Mod3("strength-score", "bonus", JInt(1)),
   Mod3("strength-score", "bonus", JNull),
   Mod2("strength-score", "bonus"),
   Mod3("dexterity-score", "bonus", JInt(2)),
   Mod3("strength-score", "set", JInt(18))}

AbilityDocs ==
  {Doc(<<s>>, m, <<>>, <<>>) :
     s \in StatLists,
     m \in {<<>>, << <<[key |-> "race", val |-> <<Mod3("dexterity-score", "bonus", JInt(1))>>]>> >>}}
  \cup
  {Doc(s, <<m>>, <<>>, <<>>) :
     s \in {<<>>, <<TypicalStats>>, << <<StatOf(1, 8), StatOf(2, 7)>> >>},
     m \in SplitMaps(ScoreMods, MaxMods, "race", "item")}

InitAbilities == \E d \in AbilityDocs : Constructing(d)

SpecAbilities == InitAbilities /\ [][Next]_vars

PastStep(steps) == pc \notin steps \cup {"raised"}

\* the modifiers of the document, of every category
AllMods(d) ==
  LET m == Get(d, "modifiers", <<>>)
  IN  UNION {{m[i].val[j] : j \in DOMAIN m[i].val} : i \in DOMAIN m}

\* C1: once the ability scores are computed the abilities map has exactly the six
\* entries STR, DEX, CON, INT, WIS, CHA; an ability whose id no `stats` entry
\* holds has base 10; every entry has total = base + bonus and
\* modifier = floor((total - 10) / 2), so 10 -> 0, 9 -> -1, 8 -> -1, 7 -> -2, 20 -> 5.
C1_AbilityEntries ==
  PastStep({"ability_scores"}) =>
    /\ DOMAIN abilities = {"STR", "DEX", "CON", "INT", "WIS", "CHA"}
    /\ \A name \in DOMAIN abilities :
         LET a == abilities[name]
             stats == Get(data, "stats", <<>>)
         IN  /\ a.total = a.base + a.bonus
             /\ 2 * a.mod <= a.total - 10
             /\ a.total - 10 <= 2 * a.mod + 1
             /\ a.total = 10 => a.mod = 0
             /\ a.total = 9 => a.mod = -1
             /\ a.total = 8 => a.mod = -1
             /\ a.total = 7 => a.mod = -2
             /\ a.total = 20 => a.mod = 5
             /\ (\A i \in DOMAIN stats : stats[i].id # StatIdOf(name))
                  => a.base = 10

C1_Witness ==
  /\ pc = "done"
  /\ abilities["STR"].base = 8 /\ abilities["STR"].bonus = 1
  /\ abilities["STR"].total = 9 /\ abilities["STR"].mod = -1
  /\ abilities["DEX"].total = 7 /\ abilities["DEX"].mod = -2
  /\ \A i \in DOMAIN Get(data, "stats", <<>>) : data["stats"][i].id # 3
  /\ abilities["CON"].base = 10

(* documents that vary the classes *)
ClassLists ==
  {<<ClassOf("Fighter", l)>> : l \in 1..MaxLevel}
  \cup SeqsUpTo({ClassOf("Fighter", 1), ClassOf("Wizard", 3), ClassOf("Cleric", 4),
                 [definition |-> [name |-> "Rogue"]]}, MaxClasses)

LevelDocs ==
  {Doc(<<TypicalStats>>, <<>>, <<c>>, <<>>) : c \in ClassLists}
  \cup {Doc(<<TypicalStats>>, <<>>, <<>>, <<>>)}

InitLevels == \E d \in LevelDocs : Constructing(d)

SpecLevels == InitLevels /\ [][Next]_vars

\* the sum of the `level` fields of the first n class entries (a missing level is 0)
RECURSIVE LevelsOfFirst(_, _)
LevelsOfFirst(classes, n) ==
  IF n = 0 THEN 0
  ELSE LevelsOfFirst(classes, n - 1)
       + (IF "level" \in DOMAIN classes[n] THEN classes[n].level ELSE 0)

\* C2: totalLevel is the sum of `level` over the entries of `classes`, and for
\* every totalLevel in 1..20 proficiencyBonus = 2 + floor((totalLevel - 1) / 4):
\* level 1 -> 2, 4 -> 2, 5 -> 3, 20 -> 6.
C2_ProficiencyBonus ==
  PastStep({"ability_scores", "proficiency_bonus"}) =>
    LET classes == Get(data, "classes", <<>>)
        b == proficiency_bonus - 2
    IN  /\ total_level = LevelsOfFirst(classes, Len(classes))
        /\ total_level \in 1..20 =>
             /\ 4 * b <= total_level - 1
             /\ total_level - 1 <= 4 * b + 3
        /\ total_level = 1 => proficiency_bonus = 2
        /\ total_level = 4 => proficiency_bonus = 2
        /\ total_level = 5 => proficiency_bonus = 3
        /\ total_level = 20 => proficiency_bonus = 6

C2_Witness ==
  /\ pc = "done"
  /\ Len(Get(data, "classes", <<>>)) = 2
  /\ Get(data, "classes", <<>>) = <<ClassOf("Fighter", 1), ClassOf("Cleric", 4)>>
  /\ total_level = 5
  /\ proficiency_bonus = 3

\* C3: a document whose `classes` list is empty or absent resolves to
\* totalLevel = 0 and proficiencyBonus = 2; the bonus is never below 2 when
\* totalLevel <= 1.
C3_BonusAtLeastTwo ==
  PastStep({"ability_scores", "proficiency_bonus"}) =>
    /\ Get(data, "classes", <<>>) = <<>> =>
         total_level = 0 /\ proficiency_bonus = 2
    /\ total_level <= 1 => proficiency_bonus >= 2

(* documents that vary the saving-throw and skill modifiers *)
SkillMods ==
  {Mod2("athletics", "proficiency"),
   Mod2("athletics", "expertise"),
   Mod2("athletics", "half-proficiency"),
   Mod3("athletics", "bonus", JInt(1)),
   [subType |-> "stealth"],
   Mod2("stealth", "half-proficiency"),
   Mod2("strength-saving-throws", "proficiency"),
   Mod3("dexterity-saving-throws", "bonus", JInt(1))}

SkillDocs ==
  {Doc(<<TypicalStats>>, <<m>>, << <<ClassOf("Fighter", 5)>> >>, <<>>) :
     m \in SplitMaps(SkillMods, MaxMods, "class", "item")}
  \cup
  {Doc(<< <<StatOf(1, 12), StatOf(2, 9)>> >>, <<m>>,
       << <<ClassOf("Rogue", 9)>> >>, <<>>) :
     m \in SplitMaps(SkillMods, MaxMods, "class", "item")}
  \cup
  {Doc(<<>>, <<m>>, << <<ClassOf("Bard", 1)>> >>, <<>>) :
     m \in SplitMaps(SkillMods, MaxMods, "item", "race")}

InitSkills == \E d \in SkillDocs : Constructing(d)

SpecSkills == InitSkills /\ [][Next]_vars

\* the `type` values of the modifiers of the document whose subType is `key`
TypesFor(d, key) ==
  {m["type"] : m \in {x \in AllMods(d) :
                        /\ "subType" \in DOMAIN x /\ x["subType"] = key
                        /\ "type" \in DOMAIN x}}

SaveKeyOf(stat) == CHOOSE k \in DOMAIN SAVE_MAP : SAVE_MAP[k] = stat

\* C4: a saving throw is proficient iff some modifier of any category has the
\* ability's saving-throw key as subType and type "proficiency"; its value is
\* abilityModifier + proficiencyBonus when proficient and abilityModifier
\* otherwise, whatever the number of such modifiers (no stacking).
C4_SavingThrows ==
  PastStep({"ability_scores", "proficiency_bonus", "saving_throws"}) =>
    /\ DOMAIN saves = {"STR", "DEX", "CON", "INT", "WIS", "CHA"}
    /\ \A stat \in DOMAIN saves :
         /\ saves[stat].proficient
              <=> "proficiency" \in TypesFor(data, SaveKeyOf(stat))
         /\ saves[stat].value =
              IF "proficiency" \in TypesFor(data, SaveKeyOf(stat))
              THEN abilities[stat].mod + proficiency_bonus
              ELSE abilities[stat].mod

C4_Witness ==
  /\ pc = "done"
  /\ Get(data, "modifiers", <<>>) =
       <<[key |-> "class", val |-> <<Mod2("strength-saving-throws", "proficiency")>>],
         [key |-> "item", val |-> <<Mod2("strength-saving-throws", "proficiency")>>]>>
  /\ proficiency_bonus = 3
  /\ abilities["STR"].mod = 2
  /\ saves["STR"] = [value |-> 5, proficient |-> TRUE]
  /\ saves["DEX"] = [value |-> 2, proficient |-> FALSE]

\* C5: the proficiency level of each of the 18 skills is the maximum over the
\* modifiers for that skill of 0, 0.5 (half-proficiency), 1 (proficiency) and
\* 2 (expertise), whatever their order and category; a later proficiency or
\* half-proficiency never downgrades an expertise.  (Levels are stored doubled.)
C5_SkillLevelIsMax ==
  PastStep({"ability_scores", "proficiency_bonus", "saving_throws", "skills"}) =>
    /\ Cardinality(DOMAIN skills) = 18
    /\ \A skill \in DOMAIN skills :
         LET types == TypesFor(data, skill)
         IN  skills[skill].proficiency =
               IF "expertise" \in types THEN 4
               ELSE IF "proficiency" \in types THEN 2
               ELSE IF "half-proficiency" \in types THEN 1
               ELSE 0

C5_Witness ==
  /\ pc = "done"
  /\ Get(data, "modifiers", <<>>) =
       <<[key |-> "class", val |-> <<Mod2("athletics", "expertise")>>],
         [key |-> "item", val |-> <<Mod2("athletics", "proficiency")>>]>>
  /\ skills["athletics"].proficiency = 4

TruncHalf(p) == IF p >= 0 THEN p \div 2 ELSE -((-p) \div 2)

\* C6: with governing ability modifier m, proficiency bonus p and level L the
\* skill value is m (L = 0), m + trunc(p / 2) (L = 0.5), m + p (L = 1) and
\* m + 2p (L = 2); p=3, m=+2, L=1 gives 5 and p=4, m=+1, L=2 gives 9.
C6_SkillValue ==
  PastStep({"ability_scores", "proficiency_bonus", "saving_throws", "skills"}) =>
    \A skill \in DOMAIN skills :
      LET m == abilities[SKILLS[skill]].mod
          p == proficiency_bonus
          L == skills[skill].proficiency
          value == skills[skill].value
      IN  /\ L \in {0, 1, 2, 4}
          /\ L = 0 => value = m
          /\ L = 1 => value = m + TruncHalf(p)
          /\ L = 2 => value = m + p
          /\ L = 4 => value = m + 2 * p
          /\ (p = 3 /\ m = 2 /\ L = 2) => value = 5
          /\ (p = 4 /\ m = 1 /\ L = 4) => value = 9

C6_Witness ==
  /\ pc = "done"
  /\ proficiency_bonus = 3
  /\ abilities["STR"].mod = 2 /\ abilities["DEX"].mod = 2
  /\ skills["athletics"].proficiency = 2 /\ skills["athletics"].value = 5
  /\ skills["stealth"].proficiency = 1 /\ skills["stealth"].value = 3
  /\ skills["arcana"].proficiency = 0 /\ skills["arcana"].value = 1

(* documents that vary the inventory, the DEX score and the armor-class modifiers *)
Item(equipped, armor_type, armor_class) ==
  [equipped |-> equipped,
   definition |-> [armorTypeId |-> armor_type, armorClass |-> armor_class]]

Granting(item, mods) ==
  [item EXCEPT !.definition = @ @@ [grantedModifiers |-> mods]]

LightArmor == Item(TRUE, JInt(1), 11)
MediumArmor == Item(TRUE, JInt(2), 14)
HeavyArmor == Item(TRUE, JInt(3), 16)
Shield == Item(TRUE, JInt(4), 2)
ShieldPlusOne == Granting(Shield, <<Mod3("armor-class", "bonus", JInt(1))>>)
StowedHeavyArmor == Item(FALSE, JInt(3), 18)
LooseShield == [definition |-> [armorTypeId |-> JInt(4), armorClass |-> 2]]
Ring ==
  Granting([equipped |-> TRUE, definition |-> [armorTypeId |-> JNull]],
           <<Mod3("armor-class", "bonus", JInt(1))>>)
LightArmorPlusOne ==
  Granting(Item(TRUE, JInt(1), 12),
           <<[subType |-> "armor-class", type |-> "bonus", value |-> JNull,
              fixedValue |-> JInt(1)]>>)

Items ==
  {LightArmor, MediumArmor, HeavyArmor, Shield, ShieldPlusOne, StowedHeavyArmor,
   LooseShield, Ring, LightArmorPlusOne}

ArmorClassMods ==
  {Mod3("armor-class", "bonus", JInt(1)),
   Mod3("armor-class", "bonus", JNull),
   Mod2("armor-class", "bonus"),
   Mod3("armor-class", "set", JInt(13)),
   Mod3("dexterity-score", "bonus", JInt(2))}

ArmorDocs ==
  {Doc(<< <<StatOf(2, dex)>> >>, <<>>, <<>>, <<inv>>) :
     dex \in {18, 16, 8}, inv \in SeqsUpTo(Items, MaxInventory)}
  \cup
  {Doc(<< <<StatOf(2, 16)>> >>, <<m>>, <<>>, inv) :
     inv \in {<<>>, << <<MediumArmor>> >>, << <<ShieldPlusOne>> >>},
     m \in SplitMaps(ArmorClassMods, MaxMods, "feat", "item")
           \cup SplitMaps(ArmorClassMods, MaxMods, "item", "class")}

InitArmor == \E d \in ArmorDocs : Constructing(d)

SpecArmor == InitArmor /\ [][Next]_vars

PastCombat ==
  PastStep({"ability_scores", "proficiency_bonus", "saving_throws", "skills",
            "combat_stats"})

Inventory == Get(data, "inventory", <<>>)

IsEquipped(item) == "equipped" \in DOMAIN item /\ item.equipped

ArmorTypeOf(item) ==
  IF "definition" \in DOMAIN item /\ "armorTypeId" \in DOMAIN item.definition
  THEN item.definition.armorTypeId ELSE JNull

ArmorClassOf(item) ==
  IF "definition" \in DOMAIN item /\ "armorClass" \in DOMAIN item.definition
  THEN item.definition.armorClass ELSE 0

GrantedOf(item) ==
  IF "definition" \in DOMAIN item /\ "grantedModifiers" \in DOMAIN item.definition
  THEN item.definition.grantedModifiers ELSE <<>>

\* the positions of the equipped items whose armorTypeId is one of `types`
EquippedOfType(types) ==
  {i \in DOMAIN Inventory :
     IsEquipped(Inventory[i]) /\ ArmorTypeOf(Inventory[i]) \in {JInt(t) : t \in types}}

GrantsArmorClass(item) ==
  \E j \in DOMAIN GrantedOf(item) :
     /\ Get(GrantedOf(item)[j], "subType", "") = "armor-class"
     /\ Get(GrantedOf(item)[j], "type", "") = "bonus"

Last(S) == CHOOSE i \in S : \A j \in S : j <= i

WithInventory(inv) == [k \in DOMAIN data \cup {"inventory"} |->
                         IF k = "inventory" THEN inv ELSE data[k]]

\* the effective DEX an armor of type t allows: full, at most 2, at most 0
CappedDex(t, dex) ==
  IF t = JInt(2) THEN (IF dex < 2 THEN dex ELSE 2)
  ELSE IF t = JInt(3) THEN (IF dex < 0 THEN dex ELSE 0)
  ELSE dex

\* C7: with no equipped shield, no armor-class bonus modifier and at most one
\* equipped body armor, armorClass = baseAC + effectiveDex: 10 and the DEX modifier
\* without armor, the item's armorClass and the full, min(.,2) or min(.,0) DEX
\* modifier for light, medium or heavy armor; unequipped items never affect the
\* result.
C7_ArmorClassBase ==
  PastCombat =>
    LET dex == abilities["DEX"].mod
        body == EquippedOfType({1, 2, 3})
        kept == SelectSeq(Inventory, IsEquipped)
    IN  /\ ac = CalculateAC(WithInventory(kept), abilities)
        /\ ( /\ EquippedOfType({4}) = {}
             /\ Cardinality(body) <= 1
             /\ \A i \in DOMAIN Inventory :
                  IsEquipped(Inventory[i]) => ~GrantsArmorClass(Inventory[i])
             /\ \A m \in AllMods(data) :
                  ~(Get(m, "subType", "") = "armor-class" /\ Get(m, "type", "") = "bonus") )
           => IF body = {} THEN ac = 10 + dex
              ELSE LET item == Inventory[Last(body)]
                   IN  ac = ArmorClassOf(item) + CappedDex(ArmorTypeOf(item), dex)

C7_Witness ==
  /\ pc = "done"
  /\ abilities["DEX"].mod = 4
  /\ Inventory = <<StowedHeavyArmor, MediumArmor, LooseShield>>
  /\ ac = 16

\* C8: when more than one body-armor item is equipped, the last one in inventory
\* order sets both baseAC (its armorClass) and dexCap (unset for light, 2 for
\* medium, 0 for heavy), whatever body armor precedes it.
C8_LastBodyArmorWins ==
  PastCombat =>
    LET body == EquippedOfType({1, 2, 3})
        st == InventoryLoop(Inventory, [base_ac |-> 10, dex_cap |-> JNull,
                                        shield_bonus |-> 0, other_bonuses |-> 0])
    IN  Cardinality(body) > 1 =>
          LET item == Inventory[Last(body)]
          IN  /\ st.base_ac = ArmorClassOf(item)
              /\ st.dex_cap = (IF ArmorTypeOf(item) = JInt(2) THEN JInt(2)
                               ELSE IF ArmorTypeOf(item) = JInt(3) THEN JInt(0)
                               ELSE JNull)
              /\ ac - st.shield_bonus - st.other_bonuses
                   = ArmorClassOf(item)
                     + CappedDex(ArmorTypeOf(item), abilities["DEX"].mod)

InsertAt(seq, k, x) ==
  [i \in 1..(Len(seq) + 1) |->
     IF i <= k THEN seq[i] ELSE IF i = k + 1 THEN x ELSE seq[i - 1]]

\* the sum an item's granted armor-class bonus modifiers contribute, over the
\* first n of them: the value, else the fixedValue, else 0
RECURSIVE GrantedSumOfFirst(_, _)
GrantedSumOfFirst(mods, n) ==
  IF n = 0 THEN 0
  ELSE GrantedSumOfFirst(mods, n - 1)
       + (IF ~(Get(mods[n], "subType", "") = "armor-class"
               /\ Get(mods[n], "type", "") = "bonus") THEN 0
          ELSE IF "value" \in DOMAIN mods[n] /\ mods[n].value \notin {JNull, JInt(0)}
               THEN mods[n].value.v
          ELSE IF "fixedValue" \in DOMAIN mods[n] /\ mods[n].fixedValue # JNull
               THEN mods[n].fixedValue.v
          ELSE 0)

\* C9 (as claimed): every equipped shield adds to shieldBonus cumulatively, so
\* adding an equipped +2 shield to any inventory, even one that already holds
\* an equipped shield or body armor, increases armorClass by exactly 2.
C9_ShieldAddsTwoAlways ==
  PastCombat =>
    \A k \in 0..Len(Inventory) :
      CalculateAC(WithInventory(InsertAt(Inventory, k, Shield)), abilities) = ac + 2

\* C9 (amended): every equipped shield sets shieldBonus to its base armorClass
\* plus its granted armor-class bonus modifiers, the last equipped shield in
\* inventory order replacing the earlier ones; adding an equipped +2 shield to
\* an inventory that holds no equipped shield, with or without body armor,
\* increases armorClass by exactly 2.
C9_LastShieldCounts ==
  PastCombat =>
    LET shields == EquippedOfType({4})
        others == SelectSeq(Inventory,
                            LAMBDA it : ~(IsEquipped(it) /\ ArmorTypeOf(it) = JInt(4)))
        without == CalculateAC(WithInventory(others), abilities)
    IN  IF shields = {}
        THEN /\ ac = without
             /\ \A k \in 0..Len(Inventory) :
                  CalculateAC(WithInventory(InsertAt(Inventory, k, Shield)), abilities)
                    = ac + 2
        ELSE LET item == Inventory[Last(shields)]
             IN  ac = without + ArmorClassOf(item)
                      + GrantedSumOfFirst(GrantedOf(item), Len(GrantedOf(item)))

C9_Witness ==
  /\ pc = "done"
  /\ abilities["DEX"].mod = 3
  /\ Inventory = <<HeavyArmor, ShieldPlusOne, Shield>>
  /\ ac = 18

\* the sum of the values (null or missing as 0) of the first n modifiers of a
\* list that have subType "armor-class" and type "bonus"
RECURSIVE ArmorClassBonusOfFirst(_, _)
ArmorClassBonusOfFirst(mods, n) ==
  IF n = 0 THEN 0
  ELSE ArmorClassBonusOfFirst(mods, n - 1)
       + (IF /\ Get(mods[n], "subType", "") = "armor-class"
             /\ Get(mods[n], "type", "") = "bonus"
             /\ "value" \in DOMAIN mods[n] /\ mods[n].value # JNull
          THEN mods[n].value.v ELSE 0)

\* the same sum over the first n categories, the "item" category left out
RECURSIVE NonItemBonusOfFirst(_, _)
NonItemBonusOfFirst(m, n) ==
  IF n = 0 THEN 0
  ELSE NonItemBonusOfFirst(m, n - 1)
       + (IF m[n].key = "item" THEN 0
          ELSE ArmorClassBonusOfFirst(m[n].val, Len(m[n].val)))

\* the document with `modifiers` replaced by m
WithModifiers(m) == [k \in DOMAIN data \cup {"modifiers"} |->
                       IF k = "modifiers" THEN m ELSE data[k]]

\* C10: in the modifier scan of the armor-class computation every modifier with
\* subType "armor-class" and type "bonus" of a category other than "item" adds
\* its value (null as 0) to armorClass, and the modifiers of the "item" category
\* leave armorClass unchanged.
C10_ModifierScan ==
  PastCombat =>
    LET m == Get(data, "modifiers", <<>>)
        stripped == [i \in DOMAIN m |->
                       [key |-> m[i].key,
                        val |-> SelectSeq(m[i].val, LAMBDA x : ~IsArmorClassBonus(x))]]
        noItem == SelectSeq(m, LAMBDA e : e.key # "item")
    IN  /\ ac = CalculateAC(WithModifiers(stripped), abilities)
                + NonItemBonusOfFirst(m, Len(m))
        /\ ac = CalculateAC(WithModifiers(noItem), abilities)

C10_Witness ==
  /\ pc = "done"
  /\ abilities["DEX"].mod = 3
  /\ Inventory = <<ShieldPlusOne>>
  /\ Get(data, "modifiers", <<>>) =
       <<[key |-> "feat", val |-> <<Mod3("armor-class", "bonus", JInt(1))>>],
         [key |-> "item", val |-> <<Mod3("armor-class", "bonus", JInt(1))>>]>>
  /\ ac = 17

(* documents that vary the hit-point fields, the CON score and the classes *)
HitPointDocs ==
  {Doc(<< <<StatOf(3, con)>> >>, <<>>, classes, <<>>)
     @@ Field("baseHitPoints", base) @@ Field("bonusHitPoints", bonus)
     @@ Field("removedHitPoints", removed) :
     con \in {8, 10, 14},
     classes \in {<<>>, << <<ClassOf("Fighter", 5)>> >>,
                  << <<ClassOf("Fighter", 1), ClassOf("Wizard", 3)>> >>},
     base \in {<<>>, <<0>>, <<10>>, <<31>>},
     bonus \in {<<>>, <<JNull>>, <<JInt(0)>>, <<JInt(5)>>},
     removed \in {<<>>, <<JNull>>, <<JInt(4)>>, <<JInt(50)>>}}

InitHitPoints == \E d \in HitPointDocs : Constructing(d)

SpecHitPoints == InitHitPoints /\ [][Next]_vars

\* the integer a nullable field of the document holds, null or absent as 0
NullAsZero(d, k) == IF k \in DOMAIN d /\ d[k] # JNull THEN d[k].v ELSE 0

\* C11: maxHitPoints = baseHitPoints + (bonusHitPoints, null as 0)
\* + CON modifier * totalLevel and currentHitPoints = maxHitPoints
\* - (removedHitPoints, null as 0), unclamped: it is negative whenever
\* removedHitPoints exceeds maxHitPoints; base 10, bonus null, CON +2, level 5,
\* removed 4 give max 20 and current 16.
C11_HitPoints ==
  PastCombat =>
    LET base == IF "baseHitPoints" \in DOMAIN data THEN data["baseHitPoints"] ELSE 0
        bonus == NullAsZero(data, "bonusHitPoints")
        removed == NullAsZero(data, "removedHitPoints")
        con == abilities["CON"].mod
    IN  /\ max_hp = base + bonus + con * total_level
        /\ current_hp = max_hp - removed
        /\ removed > max_hp => current_hp < 0
        /\ (base = 10 /\ bonus = 0 /\ con = 2 /\ total_level = 5 /\ removed = 4)
             => (max_hp = 20 /\ current_hp = 16)

C11_Witness ==
  /\ pc = "done"
  /\ Get(data, "baseHitPoints", 0) = 10
  /\ Get(data, "bonusHitPoints", JInt(0)) = JNull
  /\ Get(data, "removedHitPoints", JInt(0)) = JInt(4)
  /\ abilities["CON"].mod = 2
  /\ total_level = 5
  /\ max_hp = 20
  /\ current_hp = 16

(* documents that vary the race.weightSpeeds.normal.walk path *)
WalkValues == {<<>>, <<JInt(25)>>, <<JInt(30)>>, <<JInt(0)>>, <<JNull>>,
               <<JStr("fast")>>}

NormalValues ==
  {<<>>, <<JNull>>, <<JStr("walk")>>} \cup
  {<<Field("walk", walk)>> : walk \in WalkValues}

WeightSpeedsValues ==
  {<<>>, <<JNull>>, <<JList(<<>>)>>} \cup
  {<<Field("normal", normal)>> : normal \in NormalValues}

RaceValues ==
  {<<>>, <<JNull>>, <<JStr("Elf")>>, <<JList(<<>>)>>} \cup
  {<<Field("weightSpeeds", ws) @@ ("baseName" :> "Elf")>> :
     ws \in WeightSpeedsValues}

SpeedDocs ==
  {Doc(<< <<StatOf(2, dex)>> >>, <<>>, classes, <<>>) @@ Field("race", race) :
     dex \in {8, 14},
     classes \in {<<>>, << <<ClassOf("Rogue", 3)>> >>},
     race \in RaceValues}

InitSpeed == \E d \in SpeedDocs : Constructing(d)

SpecSpeed == InitSpeed /\ [][Next]_vars

Missing == [t |-> "missing"]

\* one link of a path: the value under k, Missing when x is not a mapping or
\* has no key k
Resolve(x, k) == IF IsMapping(x) /\ k \in DOMAIN x THEN x[k] ELSE Missing

WalkOf(d) ==
  Resolve(Resolve(Resolve(Resolve(d, "race"), "weightSpeeds"), "normal"), "walk")

IsInteger(x) == ~IsMapping(x) /\ x.t = "int"

\* C12: computing speed never raises, and speed is the integer at
\* race.weightSpeeds.normal.walk when the path resolves to an integer and 30
\* in every other case (a link absent, null or not a mapping, or the walk
\* value itself null or not an integer).
C12_SpeedIntegerOrDefault ==
  /\ pc = "spellcasting" => speed # Unset
  /\ PastCombat =>
       speed = (IF IsInteger(WalkOf(data)) THEN WalkOf(data) ELSE JInt(30))

(* documents that vary the order of caster and non-caster classes *)
SpellClassLists ==
  SeqsUpTo({ClassOf("Fighter", 5), ClassOf("Wizard", 3), ClassOf("Cleric", 1),
            ClassOf("Bard", 2), [level |-> 2]}, MaxClasses)

SpellDocs ==
  {Doc(stats, <<>>, <<classes>>, <<>>) :
     stats \in {<<>>, <<TypicalStats>>}, classes \in SpellClassLists}

InitSpells == \E d \in SpellDocs : Constructing(d)

SpecSpells == InitSpells /\ [][Next]_vars

ClassNameOf(c) == Get(Get(c, "definition", <<>>), "name", "")

\* positions in `classes` of the classes whose name is in the spellcasting table
CasterPositions(d) ==
  LET classes == Get(d, "classes", <<>>)
  IN  {i \in DOMAIN classes :
         ClassNameOf(classes[i]) \in DOMAIN SPELLCASTING_ABILITIES}

\* C13: spellcastingAbility is the ability of the first class, in document
\* order, whose name is in the spellcasting table: earlier non-caster classes
\* are skipped (Fighter 5 then Wizard 3 gives INT) and later caster classes
\* ignored; spellAttackBonus and spellSaveDC are present if and only if
\* spellcastingAbility is, and then are spellModifier + proficiencyBonus and
\* 8 + spellModifier + proficiencyBonus.
C13_Spellcasting ==
  pc = "done" =>
    LET classes == Get(data, "classes", <<>>)
        casters == CasterPositions(data)
    IN  /\ (spell_attack # JNull) <=> (spell_ability # JNull)
        /\ (spell_dc # JNull) <=> (spell_ability # JNull)
        /\ IF casters = {}
           THEN spell_ability = JNull
           ELSE LET first == CHOOSE i \in casters : \A j \in casters : i <= j
                    ability == SPELLCASTING_ABILITIES[ClassNameOf(classes[first])]
                    spell_mod == abilities[ability].mod
                IN  /\ spell_ability = JStr(ability)
                    /\ spell_attack = JInt(spell_mod + proficiency_bonus)
                    /\ spell_dc = JInt(8 + spell_mod + proficiency_bonus)
        /\ classes = <<ClassOf("Fighter", 5), ClassOf("Wizard", 3)>>
             => spell_ability = JStr("INT")

C13_Witness ==
  /\ pc = "done"
  /\ Get(data, "classes", <<>>) = <<ClassOf("Fighter", 5), ClassOf("Wizard", 3)>>
  /\ Get(data, "stats", <<>>) = TypicalStats
  /\ spell_ability = JStr("INT")
  /\ spell_attack = JInt(4)
  /\ spell_dc = JInt(12)

(* documents whose entries lack nested fields, and inputs that are no mapping *)
SparseStats ==
  {<<>>, << <<>> >>, << <<StatOf(1, 15)>> >>, << <<[id |-> 2]>> >>,
   << <<[value |-> 12]>> >>, << << <<>> >> >>,
   << <<StatOf(1, 15), [id |-> 2]>> >>}

SparseClasses ==
  {<<>>, << <<[level |-> 3]>> >>, << <<[definition |-> <<>>]>> >>,
   << << <<>>, ClassOf("Wizard", 1)>> >>}

SparseInventory ==
  {<<>>, << << <<>> >> >>, << <<[equipped |-> TRUE]>> >>,
   << <<[equipped |-> TRUE, definition |-> <<>>]>> >>,
   << <<[equipped |-> TRUE, definition |-> [armorTypeId |-> JInt(1)]]>> >>,
   << <<[definition |-> [armorTypeId |-> JInt(4), armorClass |-> 2]]>> >>}

SparseModifiers ==
  {<<>>, << <<[key |-> "race", val |-> << <<>> >>]>> >>,
   << <<[key |-> "class", val |-> <<[subType |-> "armor-class"]>>]>> >>,
   << <<[key |-> "feat", val |-> <<[type |-> "bonus", value |-> JInt(1)]>>]>> >>}

MissingFieldDocs ==
  {Doc(stats, modifiers, classes, inventory) :
     stats \in SparseStats, modifiers \in SparseModifiers,
     classes \in SparseClasses, inventory \in SparseInventory}
  \cup {JNull, JList(<<>>), JStr("Thorin")}

InitMissing == \E d \in MissingFieldDocs : Constructing(d)

SpecMissing == InitMissing /\ [][Next]_vars

\* C14: for every input whose top level is a mapping, deriving the statistics
\* completes without raising whatever nested field is missing (a key of the
\* document, of a stats entry, of a class entry, of an inventory item or of a
\* modifier record); an error is reported only when the top-level input is
\* not a mapping.
C14_RaisesOnlyOnNonMapping == pc = "raised" => ~IsMapping(data)

----------------------------------------------------------------------------
(* list_characters and show_summary: every stored document is loaded in     *)
(* the order of the sorted file names and summarised on one line; neither   *)
(* function catches an exception, so a raise leaves list_characters.        *)

\* the attributes of a sheet show_summary has built
Sheet ==
  [abilities |-> abilities, total_level |-> total_level,
   proficiency_bonus |-> proficiency_bonus, saves |-> saves, skills |-> skills,
   max_hp |-> max_hp, current_hp |-> current_hp, ac |-> ac, speed |-> speed,
   initiative |-> initiative, spell_ability |-> spell_ability,
   spell_attack |-> spell_attack, spell_dc |-> spell_dc]

\* data.get('race', {}).get('baseName', 'Unknown') and c['definition']['name']
\* for every class: the first raises on a race that is no mapping, the second
\* on a class without definition or name
SummaryPrintable(d) ==
  /\ IsMapping(Get(d, "race", <<>>))
  /\ \A i \in DOMAIN Get(d, "classes", <<>>) :
       /\ "definition" \in DOMAIN d["classes"][i]
       /\ "name" \in DOMAIN d["classes"][i]["definition"]

\* the head of `for f in sorted(files)`: load the next document and start
\* CharacterSheet(data) on it, or leave the loop
list_next ==
  /\ pc = "list_loop"
  /\ IF file_idx < Len(files)
     THEN /\ file_idx' = file_idx + 1
          /\ data' = files[file_idx + 1]
          /\ pc' = "ability_scores"
     ELSE /\ pc' = "listed"
          /\ UNCHANGED <<file_idx, data>>
  /\ abilities' = Unset /\ total_level' = Unset /\ proficiency_bonus' = Unset
  /\ saves' = Unset /\ skills' = Unset /\ max_hp' = Unset /\ current_hp' = Unset
  /\ ac' = Unset /\ speed' = Unset /\ initiative' = Unset
  /\ spell_ability' = Unset /\ spell_attack' = Unset /\ spell_dc' = Unset
  /\ UNCHANGED <<files, sheets, shown, scraping>>

\* the rest of show_summary once the sheet is built: format and print the line
print_summary ==
  /\ pc = "done"
  /\ file_idx > 0
  /\ sheets' = Append(sheets, [file |-> file_idx, sheet |-> Sheet])
  /\ IF SummaryPrintable(data)
     THEN /\ shown' = Append(shown, file_idx)
          /\ pc' = "list_loop"
     ELSE /\ shown' = shown
          /\ pc' = "raised"
  /\ UNCHANGED <<data, abilities, total_level, proficiency_bonus, saves, skills,
                 max_hp, current_hp, ac, speed, initiative, spell_ability,
                 spell_attack, spell_dc, files, file_idx, scraping>>

NextList ==
  \/ list_next
  \/ calculate_ability_scores
  \/ calculate_proficiency_bonus
  \/ calculate_saving_throws
  \/ calculate_skills
  \/ calculate_combat_stats
  \/ calculate_spellcasting
  \/ print_summary

\* list_characters entered with the stored documents fs
Listing(fs) ==
  /\ files = fs /\ file_idx = 0 /\ sheets = <<>> /\ shown = <<>>
  /\ data = <<>>
  /\ pc = "list_loop"
  /\ abilities = Unset /\ total_level = Unset /\ proficiency_bonus = Unset
  /\ saves = Unset /\ skills = Unset /\ max_hp = Unset /\ current_hp = Unset
  /\ ac = Unset /\ speed = Unset /\ initiative = Unset
  /\ spell_ability = Unset /\ spell_attack = Unset /\ spell_dc = Unset
  /\ site = <<>> /\ mode = "" /\ camp_idx = 0 /\ characters = <<>>
  /\ seen_ids = {} /\ char_idx = 0 /\ all_data = <<>> /\ saved = <<>>
  /\ combined = Unset /\ report = Unset

MaxFiles == 3

Thorin ==
  Doc(<<TypicalStats>>, <<>>, << <<ClassOf("Fighter", 5)>> >>, <<>>)
    @@ ("baseHitPoints" :> 44) @@ ("race" :> ("baseName" :> "Dwarf"))

Elara ==
  Doc(<< <<StatOf(4, 16)>> >>, <<>>, << <<ClassOf("Wizard", 3)>> >>, <<>>)
    @@ ("baseHitPoints" :> 14) @@ ("removedHitPoints" :> JInt(3))

Commoner == Doc(<<>>, <<>>, <<>>, <<>>) @@ ("baseHitPoints" :> 4)

StatWithoutValue == Doc(<< <<[id |-> 1]>> >>, <<>>, <<>>, <<>>)

ClassWithoutName == Doc(<<>>, <<>>, << <<[level |-> 2]>> >>, <<>>)

StoredDocuments ==
  {Thorin, Elara, Commoner, StatWithoutValue, ClassWithoutName, JList(<<>>)}

InitList == \E fs \in SeqsUpTo(StoredDocuments, MaxFiles) : Listing(fs)

SpecList == InitList /\ [][NextList]_vars

\* C15: resolving the same document twice, in either order and with any other
\* documents resolved in between, yields identical derived statistics
\* (abilities, proficiency bonus, saves, skills, AC, HP, speed, initiative,
\* spellcasting); no state survives between resolutions and the input
\* document is left unmodified.
C15_SameDocumentSameSheet ==
  /\ \A i, j \in DOMAIN sheets :
       files[sheets[i].file] = files[sheets[j].file]
         => sheets[i].sheet = sheets[j].sheet
  /\ file_idx > 0 => data = files[file_idx]
  /\ pc = "ability_scores" => Sheet = [k \in DOMAIN Sheet |-> Unset]

C15_Witness ==
  /\ Len(sheets) = 3
  /\ files[1] = files[3] /\ files[1] # files[2]
  /\ sheets[1].sheet = sheets[3].sheet
  /\ sheets[1].sheet # sheets[2].sheet
  /\ "classes" \notin DOMAIN files[2]

\* the listing has ended, by leaving the loop or by an exception
ListingEnded == pc \in {"listed", "raised"}

\* CharacterSheet(d) and the summary line both complete on d
Resolvable(d) == IsMapping(d) /\ StatsSubscriptable(d) /\ SummaryPrintable(d)

\* C16: when the listing processes a batch of documents, a document whose
\* resolution fails is skipped and every other document of the batch, before
\* and after it, is still resolved and shown: one malformed document never
\* aborts the whole batch.
C16_BatchSurvivesMalformed ==
  ListingEnded =>
    \A i \in DOMAIN files :
      Resolvable(files[i]) => \E k \in DOMAIN shown : shown[k] = i

----------------------------------------------------------------------------
(* scripts/character_scraper.py: DndBeyondScraper.get_character_list,       *)
(* scrape_all_characters and scrape_campaign_characters.  What the site and *)
(* the disk answer is an input, held in `site`:                             *)
(*   list_ok        get_campaign_list returns (else it raises);             *)
(*   campaigns      the campaigns it returns, each with the answer of       *)
(*                  get_campaign_characters: [ok |-> FALSE] for a raise,    *)
(*                  else the character records found on the page;           *)
(*   answers[id]    the answer of get_character_data(id): [ok |-> FALSE]    *)
(*                  for a raise, else the character document and whether    *)
(*                  its file can be written.                                *)

\* the inner loop of get_character_list over one campaign's characters:
\* a later occurrence of an id replaces the record kept for it
RECURSIVE AddUnseenKeepLast(_, _)
AddUnseenKeepLast(acc, campaign_chars) ==
  IF campaign_chars = <<>> THEN acc
  ELSE LET char == Head(campaign_chars)
       IN  AddUnseenKeepLast(
             IF char.id \in acc.seen_ids
             THEN [acc EXCEPT !.characters =
                     [i \in DOMAIN @ |-> IF @[i].id = char.id THEN char ELSE @[i]]]
             ELSE [characters |-> Append(acc.characters, char),
                   seen_ids |-> acc.seen_ids \cup {char.id}],
             Tail(campaign_chars))

\* for char in campaign_chars: if char["id"] not in seen_ids: add and append
RECURSIVE AddUnseen(_, _)
AddUnseen(acc, campaign_chars) ==
  IF campaign_chars = <<>> THEN acc
  ELSE LET char == Head(campaign_chars)
       IN  AddUnseen(
             IF char.id \notin acc.seen_ids
             THEN [characters |-> Append(acc.characters, char),
                   seen_ids |-> acc.seen_ids \cup {char.id}]
             ELSE acc,
             Tail(campaign_chars))

\* char_data["_player"] = player_name; scrape_all_characters reads the player
\* with .get("player", "") and sets the key only when the name is not empty
WithPlayer(char_data, char_info, m) ==
  IF m = "campaign" THEN ("_player" :> char_info.player) @@ char_data
  ELSE LET player_name == Get(char_info, "player", "")
       IN  IF player_name # "" THEN ("_player" :> player_name) @@ char_data
           ELSE char_data

\* char_name.replace(...) needs a string; then the file is opened and written
SaveSucceeds(answer) ==
  /\ answer.ok
  /\ Get(answer.data, "name", JStr("Character")).t = "str"
  /\ answer.writable

\* all_data after the try block, were the append placed after the save
CollectedAfterSave(collected, char_info, answer, m) ==
  IF SaveSucceeds(answer)
  THEN Append(collected, WithPlayer(answer.data, char_info, m))
  ELSE collected

\* all_data after the try block of one character: the append comes right
\* after the fetch, before the individual file is written
Collected(collected, char_info, answer, m) ==
  IF answer.ok
  THEN Append(collected, WithPlayer(answer.data, char_info, m))
  ELSE collected

\* campaigns = self.get_campaign_list(), outside any try
get_campaign_list ==
  /\ pc = "campaign_list"
  /\ pc' = IF site.list_ok THEN "campaign_loop" ELSE "raised"
  /\ UNCHANGED <<site, mode, camp_idx, characters, seen_ids, char_idx, all_data,
                 saved, combined, report>>
  /\ UNCHANGED <<data, abilities, total_level, proficiency_bonus, saves, skills,
                 max_hp, current_hp, ac, speed, initiative, spell_ability,
                 spell_attack, spell_dc, listing>>

\* one turn of `for campaign in campaigns` with its try/except
get_character_list_campaign ==
  /\ pc = "campaign_loop"
  /\ camp_idx < Len(site.campaigns)
  /\ LET page == site.campaigns[camp_idx + 1].page
         acc == IF page.ok
                THEN AddUnseen([characters |-> characters, seen_ids |-> seen_ids],
                               page.chars)
                ELSE [characters |-> characters, seen_ids |-> seen_ids]
     IN  /\ characters' = acc.characters
         /\ seen_ids' = acc.seen_ids
  /\ camp_idx' = camp_idx + 1
  /\ UNCHANGED <<pc, site, mode, char_idx, all_data, saved, combined, report>>
  /\ UNCHANGED <<data, abilities, total_level, proficiency_bonus, saves, skills,
                 max_hp, current_hp, ac, speed, initiative, spell_ability,
                 spell_attack, spell_dc, listing>>

\* return characters, back in scrape_all_characters
get_character_list_return ==
  /\ pc = "campaign_loop"
  /\ camp_idx = Len(site.campaigns)
  /\ pc' = "scrape_loop"
  /\ UNCHANGED <<site, mode, camp_idx, characters, seen_ids, char_idx, all_data,
                 saved, combined, report>>
  /\ UNCHANGED <<data, abilities, total_level, proficiency_bonus, saves, skills,
                 max_hp, current_hp, ac, speed, initiative, spell_ability,
                 spell_attack, spell_dc, listing>>

\* characters = self.get_campaign_characters(campaign_id), outside any try
get_campaign_characters ==
  /\ pc = "campaign_page"
  /\ LET page == site.campaigns[1].page
     IN  IF page.ok
         THEN /\ characters' = page.chars
              /\ pc' = "scrape_loop"
         ELSE /\ characters' = characters
              /\ pc' = "raised"
  /\ UNCHANGED <<site, mode, camp_idx, seen_ids, char_idx, all_data, saved,
                 combined, report>>
  /\ UNCHANGED <<data, abilities, total_level, proficiency_bonus, saves, skills,
                 max_hp, current_hp, ac, speed, initiative, spell_ability,
                 spell_attack, spell_dc, listing>>

\* one turn of `for char_info in characters` with its try/except
scrape_character ==
  /\ pc = "scrape_loop"
  /\ char_idx < Len(characters)
  /\ LET char_info == characters[char_idx + 1]
         answer == site.answers[char_info.id]
     IN  /\ all_data' = Collected(all_data, char_info, answer, mode)
         /\ saved' = IF SaveSucceeds(answer)
                     THEN Append(saved, char_info.id)
                     ELSE saved
  /\ char_idx' = char_idx + 1
  /\ UNCHANGED <<pc, site, mode, camp_idx, characters, seen_ids, combined, report>>
  /\ UNCHANGED <<data, abilities, total_level, proficiency_bonus, saves, skills,
                 max_hp, current_hp, ac, speed, initiative, spell_ability,
                 spell_attack, spell_dc, listing>>

\* after the loop: json.dump(all_data) to the combined file and the totals
save_combined ==
  /\ pc = "scrape_loop"
  /\ char_idx = Len(characters)
  /\ combined' = all_data
  /\ report' = [scraped |-> Len(all_data), found |-> Len(characters)]
  /\ pc' = "scraped"
  /\ UNCHANGED <<site, mode, camp_idx, characters, seen_ids, char_idx, all_data,
                 saved>>
  /\ UNCHANGED <<data, abilities, total_level, proficiency_bonus, saves, skills,
                 max_hp, current_hp, ac, speed, initiative, spell_ability,
                 spell_attack, spell_dc, listing>>

NextScrape ==
  \/ get_campaign_list
  \/ get_character_list_campaign
  \/ get_character_list_return
  \/ get_campaign_characters
  \/ scrape_character
  \/ save_combined

\* a scrape_* method entered at step p in mode m against the answers w
Scraping(w, m, p) ==
  /\ site = w /\ mode = m /\ pc = p
  /\ camp_idx = 0 /\ characters = <<>> /\ seen_ids = {} /\ char_idx = 0
  /\ all_data = <<>> /\ saved = <<>> /\ combined = Unset /\ report = Unset
  /\ data = <<>>
  /\ abilities = Unset /\ total_level = Unset /\ proficiency_bonus = Unset
  /\ saves = Unset /\ skills = Unset /\ max_hp = Unset /\ current_hp = Unset
  /\ ac = Unset /\ speed = Unset /\ initiative = Unset
  /\ spell_ability = Unset /\ spell_attack = Unset /\ spell_dc = Unset
  /\ files = <<>> /\ file_idx = 0 /\ sheets = <<>> /\ shown = <<>>

MaxCampaigns == 3

CharIds == {101, 102, 103}

Dana == [id |-> 101, player |-> "Dana"]

DanaNoPlayer == [id |-> 101, player |-> ""]

Bram == [id |-> 102, player |-> "Unknown"]

Cora == [id |-> 103, player |-> "Eli"]

PageError == [ok |-> FALSE]

Page(chars) == [ok |-> TRUE, chars |-> chars]

Pages ==
  {PageError, Page(<<>>), Page(<<DanaNoPlayer, Cora>>), Page(<<Cora, Bram>>),
   Page(<<Bram, Dana>>)}

FetchError == [ok |-> FALSE]

Fetched(id, name, writable) ==
  [ok |-> TRUE, data |-> [id |-> id, name |-> name], writable |-> writable]

Answers ==
  {[id \in CharIds |-> Fetched(id, JStr("Hero"), TRUE)],
   (101 :> FetchError) @@ (102 :> Fetched(102, JStr("Bram"), TRUE))
     @@ (103 :> Fetched(103, JStr("Cora"), TRUE)),
   (101 :> FetchError) @@ (102 :> Fetched(102, JStr("Bram"), TRUE))
     @@ (103 :> Fetched(103, JNull, TRUE)),
   (101 :> Fetched(101, JStr("Dana"), TRUE))
     @@ (102 :> Fetched(102, JStr("Bram"), FALSE)) @@ (103 :> FetchError)}

Campaigns(pages) == [i \in DOMAIN pages |-> [id |-> i, page |-> pages[i]]]

InitScrape ==
  \/ \E ok \in BOOLEAN, pages \in SeqsUpTo(Pages, MaxCampaigns), a \in Answers :
       Scraping([list_ok |-> ok, campaigns |-> Campaigns(pages), answers |-> a],
                "all", "campaign_list")
  \/ \E page \in Pages, a \in Answers :
       Scraping([list_ok |-> TRUE, campaigns |-> Campaigns(<<page>>),
                 answers |-> a],
                "campaign", "campaign_page")

\* the scraper is one sequential process: as long as every request and every
\* write returns or raises, it takes its next step
SpecScrape == InitScrape /\ [][NextScrape]_vars /\ WF_vars(NextScrape)

IdsOf(docs) == [i \in DOMAIN docs |-> docs[i].id]

\* the ids, in discovery order, of the first n characters whose fetch succeeded
RECURSIVE FetchedUpTo(_)
FetchedUpTo(n) ==
  IF n = 0 THEN <<>>
  ELSE IF site.answers[characters[n].id].ok
       THEN Append(FetchedUpTo(n - 1), characters[n].id)
       ELSE FetchedUpTo(n - 1)

C17_Collected ==
  /\ pc \in {"scrape_loop", "scraped"} =>
       /\ IdsOf(all_data) = FetchedUpTo(char_idx)
       /\ \A i \in DOMAIN all_data :
            all_data[i].name = site.answers[all_data[i].id].data.name
  /\ pc = "scraped" =>
       /\ char_idx = Len(characters)
       /\ combined # Unset => IdsOf(combined) = FetchedUpTo(Len(characters))
       /\ combined = all_data
       /\ report = [scraped |-> Len(combined), found |-> Len(characters)]
       /\ report.scraped <= report.found

RECURSIVE Occurrences(_)
Occurrences(n) ==
  IF n = 0 THEN <<>>
  ELSE Occurrences(n - 1) \o
       (IF site.campaigns[n].page.ok THEN site.campaigns[n].page.chars ELSE <<>>)

\* the first n records of occ without those whose id occurred earlier
RECURSIVE FirstOccurrences(_, _)
FirstOccurrences(occ, n) ==
  IF n = 0 THEN <<>>
  ELSE IF \E j \in 1..(n - 1) : occ[j].id = occ[n].id
       THEN FirstOccurrences(occ, n - 1)
       ELSE Append(FirstOccurrences(occ, n - 1), occ[n])

\* C18: get_character_list returns each character id at most once, keeping
\* the first occurrence in campaign order even when the same character
\* appears in several campaigns; a failure to read one campaign's characters
\* drops only that campaign's characters, those of every other campaign are
\* still returned.
C18_FirstOccurrenceKept ==
  (mode = "all" /\ pc \in {"campaign_loop", "scrape_loop", "scraped"}) =>
    /\ characters = FirstOccurrences(Occurrences(camp_idx),
                                     Len(Occurrences(camp_idx)))
    /\ \A i, j \in DOMAIN characters :
         characters[i].id = characters[j].id => i = j
    /\ pc # "campaign_loop" => camp_idx = Len(site.campaigns)

C18_Witness ==
  /\ mode = "all"
  /\ pc = "scrape_loop"
  /\ site.campaigns =
       Campaigns(<<Page(<<DanaNoPlayer, Cora>>), PageError, Page(<<Bram, Dana>>)>>)
  /\ characters = <<DanaNoPlayer, Cora, Bram>>

====
